---------------------------- MODULE Spec2Model ----------------------------
(***************************************************************************)
(* USB HID usage pages (lib/src/page.rs) and the fixed-function consumer   *)
(* control example (src/bin/consumer_fixed.rs).                            *)
(*                                                                         *)
(* A usage page is a fieldless enum with explicit discriminants.  A value  *)
(* of the enum is modelled by the position of its variant in the           *)
(* declaration (1 = first variant); XxxTable gives, per position, the      *)
(* variant's name and its discriminant.  The conversions derived by        *)
(* num_enum (FromPrimitive, IntoPrimitive), the derived comparisons and    *)
(* the hash32::Hash implementations are operators over these tables.       *)
(***************************************************************************)
EXTENDS Integers, Sequences, FiniteSets

\* enum Leds (#[repr(u8)]), page.rs lines 36-115: the variants in
\* declaration order, each with its explicit discriminant.
LedsTable ==
  << <<"Undefined", \h00>>,
     <<"NumLock", \h01>>,
     <<"CapsLock", \h02>>,
     <<"ScrollLock", \h03>>,
     <<"Compose", \h04>>,
     <<"Kana", \h05>>,
     <<"Power", \h06>>,
     <<"Shift", \h07>>,
     <<"DoNotDisturb", \h08>>,
     <<"Mute", \h09>>,
     <<"ToneEnable", \h0A>>,
     <<"HighCutFilter", \h0B>>,
     <<"LowCutFilter", \h0C>>,
     <<"EqualizerEnable", \h0D>>,
     <<"SoundFieldOn", \h0E>>,
     <<"SurroundFieldOn", \h0F>>,
     <<"Repeat", \h10>>,
     <<"Stereo", \h11>>,
     <<"SamplingRateDetect", \h12>>,
     <<"Spinning", \h13>>,
     <<"CAV", \h14>>,
     <<"CLV", \h15>>,
     <<"RecordingFormatDetect", \h16>>,
     <<"OffHook", \h17>>,
     <<"Ring", \h18>>,
     <<"MessageWaiting", \h19>>,
     <<"DataMode", \h1A>>,
     <<"BatteryOperation", \h1B>>,
     <<"BatteryOK", \h1C>>,
     <<"BatteryLow", \h1D>>,
     <<"Speaker", \h1E>>,
     <<"HeadSet", \h1F>>,
     <<"Hold", \h20>>,
     <<"Microphone", \h21>>,
     <<"Coverage", \h22>>,
     <<"NightMode", \h23>>,
     <<"SendCalls", \h24>>,
     <<"CallPickup", \h25>>,
     <<"Conference", \h26>>,
     <<"StandBy", \h27>>,
     <<"CameraOn", \h28>>,
     <<"CameraOff", \h29>>,
     <<"OnLine", \h2A>>,
     <<"OffLine", \h2B>>,
     <<"Busy", \h2C>>,
     <<"Ready", \h2D>>,
     <<"PaperOut", \h2E>>,
     <<"PaperJam", \h2F>>,
     <<"Remote", \h30>>,
     <<"Forward", \h31>>,
     <<"Reverse", \h32>>,
     <<"Stop", \h33>>,
     <<"Rewind", \h34>>,
     <<"FastForward", \h35>>,
     <<"Play", \h36>>,
     <<"Pause", \h37>>,
     <<"Record", \h38>>,
     <<"Error", \h39>>,
     <<"UsageSelectedIndicator", \h3A>>,
     <<"UsageInUseIndicator", \h3B>>,
     <<"UsageMultiModeIndicator", \h3C>>,
     <<"IndicatorOn", \h3D>>,
     <<"IndicatorFlash", \h3E>>,
     <<"IndicatorSlowBlink", \h3F>>,
     <<"IndicatorFastBlink", \h40>>,
     <<"IndicatorOff", \h41>>,
     <<"FlashOnTime", \h42>>,
     <<"SlowBlinkOnTime", \h43>>,
     <<"SlowBlinkOffTime", \h44>>,
     <<"FastBlinkOnTime", \h45>>,
     <<"FastBlinkOffTime", \h46>>,
     <<"UsageIndicatorColor", \h47>>,
     <<"Red", \h48>>,
     <<"Green", \h49>>,
     <<"Amber", \h4A>>,
     <<"GenericIndicator", \h4B>>
  >>

\* enum Consumer (#[repr(u16)]), page.rs lines 151-535: the variants in
\* declaration order, each with its explicit discriminant.
ConsumerTable ==
  << <<"Unassigned", \h00>>,
     <<"ConsumerControl", \h01>>,
     <<"NumericKeyPad", \h02>>,
     <<"ProgrammableButtons", \h03>>,
     <<"Microphone", \h04>>,
     <<"Headphone", \h05>>,
     <<"GraphicEqualizer", \h06>>,
     <<"Plus10", \h20>>,
     <<"Plus100", \h21>>,
     <<"AmPm", \h22>>,
     <<"Power", \h30>>,
     <<"Reset", \h31>>,
     <<"Sleep", \h32>>,
     <<"SleepAfter", \h33>>,
     <<"SleepMode", \h34>>,
     <<"Illumination", \h35>>,
     <<"FunctionButtons", \h36>>,
     <<"Menu", \h40>>,
     <<"MenuPick", \h41>>,
     <<"MenuUp", \h42>>,
     <<"MenuDown", \h43>>,
     <<"MenuLeft", \h44>>,
     <<"MenuRight", \h45>>,
     <<"MenuEscape", \h46>>,
     <<"MenuValueIncrease", \h47>>,
     <<"MenuValueDecrease", \h48>>,
     <<"DataOnScreen", \h60>>,
     <<"ClosedCaption", \h61>>,
     <<"ClosedCaptionSelect", \h62>>,
     <<"VcrTv", \h63>>,
     <<"BroadcastMode", \h64>>,
     <<"Snapshot", \h65>>,
     <<"Still", \h66>>,
     <<"Selection", \h80>>,
     <<"AssignSelection", \h81>>,
     <<"ModeStep", \h82>>,
     <<"RecallLast", \h83>>,
     <<"EnterChannel", \h84>>,
     <<"OrderMovie", \h85>>,
     <<"Channel", \h86>>,
     <<"MediaSelection", \h87>>,
     <<"MediaSelectComputer", \h88>>,
     <<"MediaSelectTV", \h89>>,
     <<"MediaSelectWWW", \h8A>>,
     <<"MediaSelectDVD", \h8B>>,
     <<"MediaSelectTelephone", \h8C>>,
     <<"MediaSelectProgramGuide", \h8D>>,
     <<"MediaSelectVideoPhone", \h8E>>,
     <<"MediaSelectGames", \h8F>>,
     <<"MediaSelectMessages", \h90>>,
     <<"MediaSelectCD", \h91>>,
     <<"MediaSelectVCR", \h92>>,
     <<"MediaSelectTuner", \h93>>,
     <<"Quit", \h94>>,
     <<"Help", \h95>>,
     <<"MediaSelectTape", \h96>>,
     <<"MediaSelectCable", \h97>>,
     <<"MediaSelectSatellite", \h98>>,
     <<"MediaSelectSecurity", \h99>>,
     <<"MediaSelectHome", \h9A>>,
     <<"MediaSelectCall", \h9B>>,
     <<"ChannelIncrement", \h9C>>,
     <<"ChannelDecrement", \h9D>>,
     <<"MediaSelectSAP", \h9E>>,
     <<"VCRPlus", \hA0>>,
     <<"Once", \hA1>>,
     <<"Daily", \hA2>>,
     <<"Weekly", \hA3>>,
     <<"Monthly", \hA4>>,
     <<"Play", \hB0>>,
     <<"Pause", \hB1>>,
     <<"Record", \hB2>>,
     <<"FastForward", \hB3>>,
     <<"Rewind", \hB4>>,
     <<"ScanNextTrack", \hB5>>,
     <<"ScanPreviousTrack", \hB6>>,
     <<"Stop", \hB7>>,
     <<"Eject", \hB8>>,
     <<"RandomPlay", \hB9>>,
     <<"SelectDisc", \hBA>>,
     <<"EnterDisc", \hBB>>,
     <<"Repeat", \hBC>>,
     <<"Tracking", \hBD>>,
     <<"TrackNormal", \hBE>>,
     <<"SlowTracking", \hBF>>,
     <<"FrameForward", \hC0>>,
     <<"FrameBack", \hC1>>,
     <<"Mark", \hC2>>,
     <<"ClearMark", \hC3>>,
     <<"RepeatFromMark", \hC4>>,
     <<"ReturnToMark", \hC5>>,
     <<"SearchMarkForward", \hC6>>,
     <<"SearchMarkBackwards", \hC7>>,
     <<"CounterReset", \hC8>>,
     <<"ShowCounter", \hC9>>,
     <<"TrackingIncrement", \hCA>>,
     <<"TrackingDecrement", \hCB>>,
     <<"StopEject", \hCC>>,
     <<"PlayPause", \hCD>>,
     <<"PlaySkip", \hCE>>,
     <<"Volume", \hE0>>,
     <<"Balance", \hE1>>,
     <<"Mute", \hE2>>,
     <<"Bass", \hE3>>,
     <<"Treble", \hE4>>,
     <<"BassBoost", \hE5>>,
     <<"SurroundMode", \hE6>>,
     <<"Loudness", \hE7>>,
     <<"MPX", \hE8>>,
     <<"VolumeIncrement", \hE9>>,
     <<"VolumeDecrement", \hEA>>,
     <<"SpeedSelect", \hF0>>,
     <<"PlaybackSpeed", \hF1>>,
     <<"StandardPlay", \hF2>>,
     <<"LongPlay", \hF3>>,
     <<"ExtendedPlay", \hF4>>,
     <<"Slow", \hF5>>,
     <<"FanEnable", \h100>>,
     <<"FanSpeed", \h101>>,
     <<"LightEnable", \h102>>,
     <<"LightIlluminationLevel", \h103>>,
     <<"ClimateControlEnable", \h104>>,
     <<"RoomTemperature", \h105>>,
     <<"SecurityEnable", \h106>>,
     <<"FireAlarm", \h107>>,
     <<"PoliceAlarm", \h108>>,
     <<"Proximity", \h109>>,
     <<"Motion", \h10A>>,
     <<"DuressAlarm", \h10B>>,
     <<"HoldupAlarm", \h10C>>,
     <<"MedicalAlarm", \h10D>>,
     <<"BalanceRight", \h150>>,
     <<"BalanceLeft", \h151>>,
     <<"BassIncrement", \h152>>,
     <<"BassDecrement", \h153>>,
     <<"TrebleIncrement", \h154>>,
     <<"TrebleDecrement", \h155>>,
     <<"SpeakerSystem", \h160>>,
     <<"ChannelLeft", \h161>>,
     <<"ChannelRight", \h162>>,
     <<"ChannelCenter", \h163>>,
     <<"ChannelFront", \h164>>,
     <<"ChannelCenterFront", \h165>>,
     <<"ChannelSide", \h166>>,
     <<"ChannelSurround", \h167>>,
     <<"ChannelLowFrequencyEnhancement", \h168>>,
     <<"ChannelTop", \h169>>,
     <<"ChannelUnknown", \h16A>>,
     <<"SubChannel", \h170>>,
     <<"SubChannelIncrement", \h171>>,
     <<"SubChannelDecrement", \h172>>,
     <<"AlternateAudioIncrement", \h173>>,
     <<"AlternateAudioDecrement", \h174>>,
     <<"ApplicationLaunchButtons", \h180>>,
     <<"ALLaunchButtonConfigurationTool", \h181>>,
     <<"ALProgrammableButtonConfiguration", \h182>>,
     <<"ALConsumerControlConfiguration", \h183>>,
     <<"ALWordProcessor", \h184>>,
     <<"ALTextEditor", \h185>>,
     <<"ALSpreadsheet", \h186>>,
     <<"ALGraphicsEditor", \h187>>,
     <<"ALPresentationApp", \h188>>,
     <<"ALDatabaseApp", \h189>>,
     <<"ALEmailReader", \h18A>>,
     <<"ALNewsreader", \h18B>>,
     <<"ALVoicemail", \h18C>>,
     <<"ALContactsAddressBook", \h18D>>,
     <<"ALCalendarSchedule", \h18E>>,
     <<"ALTaskProjectManager", \h18F>>,
     <<"ALLogJournalTimecard", \h190>>,
     <<"ALCheckbookFinance", \h191>>,
     <<"ALCalculator", \h192>>,
     <<"ALAvCapturePlayback", \h193>>,
     <<"ALLocalMachineBrowser", \h194>>,
     <<"ALLanWanBrowser", \h195>>,
     <<"ALInternetBrowser", \h196>>,
     <<"ALRemoteNetworkingISPConnect", \h197>>,
     <<"ALNetworkConference", \h198>>,
     <<"ALNetworkChat", \h199>>,
     <<"ALTelephonyDialer", \h19A>>,
     <<"ALLogon", \h19B>>,
     <<"ALLogoff", \h19C>>,
     <<"ALLogonLogoff", \h19D>>,
     <<"ALTerminalLockScreensaver", \h19E>>,
     <<"ALControlPanel", \h19F>>,
     <<"ALCommandLineProcessorRun", \h1A0>>,
     <<"ALProcessTaskManager", \h1A1>>,
     <<"ALSelectTaskApplication", \h1A2>>,
     <<"ALNextTaskApplication", \h1A3>>,
     <<"ALPreviousTaskApplication", \h1A4>>,
     <<"ALPreemptiveHaltTaskApplication", \h1A5>>,
     <<"ALIntegratedHelpCenter", \h1A6>>,
     <<"ALDocuments", \h1A7>>,
     <<"ALThesaurus", \h1A8>>,
     <<"ALDictionary", \h1A9>>,
     <<"ALDesktop", \h1AA>>,
     <<"ALSpellCheck", \h1AB>>,
     <<"ALGrammarCheck", \h1AC>>,
     <<"ALWirelessStatus", \h1AD>>,
     <<"ALKeyboardLayout", \h1AE>>,
     <<"ALVirusProtection", \h1AF>>,
     <<"ALEncryption", \h1B0>>,
     <<"ALScreenSaver", \h1B1>>,
     <<"ALAlarms", \h1B2>>,
     <<"ALClock", \h1B3>>,
     <<"ALFileBrowser", \h1B4>>,
     <<"ALPowerStatus", \h1B5>>,
     <<"ALImageBrowser", \h1B6>>,
     <<"ALAudioBrowser", \h1B7>>,
     <<"ALMovieBrowser", \h1B8>>,
     <<"ALDigitalRightsManager", \h1B9>>,
     <<"ALDigitalWallet", \h1BA>>,
     <<"ALInstantMessaging", \h1BC>>,
     <<"ALOemFeaturesTipsTutorialBrowser", \h1BD>>,
     <<"ALOemHelp", \h1BE>>,
     <<"ALOnlineCommunity", \h1BF>>,
     <<"ALEntertainmentContentBrowser", \h1C0>>,
     <<"ALOnlineShoppingBrowser", \h1C1>>,
     <<"ALSmartCardInformationHelp", \h1C2>>,
     <<"ALMarketMonitorFinanceBrowser", \h1C3>>,
     <<"ALCustomizedCorporateNewsBrowser", \h1C4>>,
     <<"ALOnlineActivityBrowser", \h1C5>>,
     <<"ALResearchSearchBrowser", \h1C6>>,
     <<"ALAudioPlayer", \h1C7>>,
     <<"GenericGUIApplicationControls", \h200>>,
     <<"ACNew", \h201>>,
     <<"ACOpen", \h202>>,
     <<"ACClose", \h203>>,
     <<"ACExit", \h204>>,
     <<"ACMaximize", \h205>>,
     <<"ACMinimize", \h206>>,
     <<"ACSave", \h207>>,
     <<"ACPrint", \h208>>,
     <<"ACProperties", \h209>>,
     <<"ACUndo", \h21A>>,
     <<"ACCopy", \h21B>>,
     <<"ACCut", \h21C>>,
     <<"ACPaste", \h21D>>,
     <<"ACSelectAll", \h21E>>,
     <<"ACFind", \h21F>>,
     <<"ACFindAndReplace", \h220>>,
     <<"ACSearch", \h221>>,
     <<"ACGoTo", \h222>>,
     <<"ACHome", \h223>>,
     <<"ACBack", \h224>>,
     <<"ACForward", \h225>>,
     <<"ACStop", \h226>>,
     <<"ACRefresh", \h227>>,
     <<"ACPreviousLink", \h228>>,
     <<"ACNextLink", \h229>>,
     <<"ACBookmarks", \h22A>>,
     <<"ACHistory", \h22B>>,
     <<"ACSubscriptions", \h22C>>,
     <<"ACZoomIn", \h22D>>,
     <<"ACZoomOut", \h22E>>,
     <<"ACZoom", \h22F>>,
     <<"ACFullScreenView", \h230>>,
     <<"ACNormalView", \h231>>,
     <<"ACViewToggle", \h232>>,
     <<"ACScrollUp", \h233>>,
     <<"ACScrollDown", \h234>>,
     <<"ACScroll", \h235>>,
     <<"ACPanLeft", \h236>>,
     <<"ACPanRight", \h237>>,
     <<"ACPan", \h238>>,
     <<"ACNewWindow", \h239>>,
     <<"ACTileHorizontally", \h23A>>,
     <<"ACTileVertically", \h23B>>,
     <<"ACFormat", \h23C>>,
     <<"ACEdit", \h23D>>,
     <<"ACBold", \h23E>>,
     <<"ACItalics", \h23F>>,
     <<"ACUnderline", \h240>>,
     <<"ACStrikethrough", \h241>>,
     <<"ACSubscript", \h242>>,
     <<"ACSuperscript", \h243>>,
     <<"ACAllCaps", \h244>>,
     <<"ACRotate", \h245>>,
     <<"ACResize", \h246>>,
     <<"ACFlipHorizontal", \h247>>,
     <<"ACFlipVertical", \h248>>,
     <<"ACMirrorHorizontal", \h249>>,
     <<"ACMirrorVertical", \h24A>>,
     <<"ACFontSelect", \h24B>>,
     <<"ACFontColor", \h24C>>,
     <<"ACFontSize", \h24D>>,
     <<"ACJustifyLeft", \h24E>>,
     <<"ACJustifyCenterH", \h24F>>,
     <<"ACJustifyRight", \h250>>,
     <<"ACJustifyBlockH", \h251>>,
     <<"ACJustifyTop", \h252>>,
     <<"ACJustifyCenterV", \h253>>,
     <<"ACJustifyBottom", \h254>>,
     <<"ACJustifyBlockV", \h255>>,
     <<"ACIndentDecrease", \h256>>,
     <<"ACIndentIncrease", \h257>>,
     <<"ACNumberedList", \h258>>,
     <<"ACRestartNumbering", \h259>>,
     <<"ACBulletedList", \h25A>>,
     <<"ACPromote", \h25B>>,
     <<"ACDemote", \h25C>>,
     <<"ACYes", \h25D>>,
     <<"ACNo", \h25E>>,
     <<"ACCancel", \h25F>>,
     <<"ACCatalog", \h260>>,
     <<"ACBuyCheckout", \h261>>,
     <<"ACAddToCart", \h262>>,
     <<"ACExpand", \h263>>,
     <<"ACExpandAll", \h264>>,
     <<"ACCollapse", \h265>>,
     <<"ACCollapseAll", \h266>>,
     <<"ACPrintPreview", \h267>>,
     <<"ACPasteSpecial", \h268>>,
     <<"ACInsertMode", \h269>>,
     <<"ACDelete", \h26A>>,
     <<"ACLock", \h26B>>,
     <<"ACUnlock", \h26C>>,
     <<"ACProtect", \h26D>>,
     <<"ACUnprotect", \h26E>>,
     <<"ACAttachComment", \h26F>>,
     <<"ACDeleteComment", \h270>>,
     <<"ACViewComment", \h271>>,
     <<"ACSelectWord", \h272>>,
     <<"ACSelectSentence", \h273>>,
     <<"ACSelectParagraph", \h274>>,
     <<"ACSelectColumn", \h275>>,
     <<"ACSelectRow", \h276>>,
     <<"ACSelectTable", \h277>>,
     <<"ACSelectObject", \h278>>,
     <<"ACRedoRepeat", \h279>>,
     <<"ACSort", \h27A>>,
     <<"ACSortAscending", \h27B>>,
     <<"ACSortDescending", \h27C>>,
     <<"ACFilter", \h27D>>,
     <<"ACSetClock", \h27E>>,
     <<"ACViewClock", \h27F>>,
     <<"ACSelectTimeZone", \h280>>,
     <<"ACEditTimeZones", \h281>>,
     <<"ACSetAlarm", \h282>>,
     <<"ACClearAlarm", \h283>>,
     <<"ACSnoozeAlarm", \h284>>,
     <<"ACResetAlarm", \h285>>,
     <<"ACSynchronize", \h286>>,
     <<"ACSendReceive", \h287>>,
     <<"ACSendTo", \h288>>,
     <<"ACReply", \h289>>,
     <<"ACReplyAll", \h28A>>,
     <<"ACForwardMsg", \h28B>>,
     <<"ACSend", \h28C>>,
     <<"ACAttachFile", \h28D>>,
     <<"ACUpload", \h28E>>,
     <<"ACDownloadSaveTargetAs", \h28F>>,
     <<"ACSetBorders", \h290>>,
     <<"ACInsertRow", \h291>>,
     <<"ACInsertColumn", \h292>>,
     <<"ACInsertFile", \h293>>,
     <<"ACInsertPicture", \h294>>,
     <<"ACInsertObject", \h295>>,
     <<"ACInsertSymbol", \h296>>,
     <<"ACSaveAndClose", \h297>>,
     <<"ACRename", \h298>>,
     <<"ACMerge", \h299>>,
     <<"ACSplit", \h29A>>,
     <<"ACDistributeHorizontally", \h29B>>,
     <<"ACDistributeVertically", \h29C>>
  >>

\* enum Desktop (#[repr(u8)]), page.rs lines 561-621: the variants in
\* declaration order, each with its explicit discriminant.
DesktopTable ==
  << <<"Undefined", \h00>>,
     <<"Pointer", \h01>>,
     <<"Mouse", \h02>>,
     <<"Joystick", \h04>>,
     <<"GamePad", \h05>>,
     <<"Keyboard", \h06>>,
     <<"Keypad", \h07>>,
     <<"MultiAxisController", \h08>>,
     <<"TabletPcSystemControls", \h09>>,
     <<"X", \h30>>,
     <<"Y", \h31>>,
     <<"Z", \h32>>,
     <<"Rx", \h33>>,
     <<"Ry", \h34>>,
     <<"Rz", \h35>>,
     <<"Slider", \h36>>,
     <<"Dial", \h37>>,
     <<"Wheel", \h38>>,
     <<"HatSwitch", \h39>>,
     <<"CountedBuffer", \h3A>>,
     <<"ByteCount", \h3B>>,
     <<"MotionWakeup", \h3C>>,
     <<"Start", \h3D>>,
     <<"Select", \h3E>>,
     <<"Vx", \h40>>,
     <<"Vy", \h41>>,
     <<"Vz", \h42>>,
     <<"Vbrx", \h43>>,
     <<"Vbry", \h44>>,
     <<"Vbrz", \h45>>,
     <<"Vno", \h46>>,
     <<"FeatureNotification", \h47>>,
     <<"ResolutionMultiplier", \h48>>,
     <<"SystemControl", \h80>>,
     <<"SystemPowerDown", \h81>>,
     <<"SystemSleep", \h82>>,
     <<"SystemWakeUp", \h83>>,
     <<"SystemContextMenu", \h84>>,
     <<"SystemMainMenu", \h85>>,
     <<"SystemAppMenu", \h86>>,
     <<"SystemHelpMenu", \h87>>,
     <<"SystemMenuExit", \h88>>,
     <<"SystemMenuSelect", \h89>>,
     <<"SystemMenuRight", \h8A>>,
     <<"SystemMenuLeft", \h8B>>,
     <<"SystemMenuUp", \h8C>>,
     <<"SystemMenuDown", \h8D>>,
     <<"SystemColdRestart", \h8E>>,
     <<"SystemWarmRestart", \h8F>>,
     <<"DPadUp", \h90>>,
     <<"DPadDown", \h91>>,
     <<"DPadRight", \h92>>,
     <<"DPadLeft", \h93>>
  >>

\* enum Game (#[repr(u8)]), page.rs lines 647-680: the variants in
\* declaration order, each with its explicit discriminant.
GameTable ==
  << <<"Undefined", \h00>>,
     <<"Game3DController", \h01>>,
     <<"PinballDevice", \h02>>,
     <<"GunDevice", \h03>>,
     <<"PointOfView", \h20>>,
     <<"TurnRightLeft", \h21>>,
     <<"PitchRightLeft", \h22>>,
     <<"RollForwardBackward", \h23>>,
     <<"MoveRightLeft", \h24>>,
     <<"MoveForwardBackward", \h25>>,
     <<"MoveUpDown", \h26>>,
     <<"LeanRightLeft", \h27>>,
     <<"LeanForwardBackward", \h28>>,
     <<"HeightOfPOV", \h29>>,
     <<"Flipper", \h2A>>,
     <<"SecondaryFlipper", \h2B>>,
     <<"Bump", \h2C>>,
     <<"NewGame", \h2D>>,
     <<"ShootBall", \h2E>>,
     <<"Player", \h2F>>,
     <<"GunBolt", \h30>>,
     <<"GunClip", \h31>>,
     <<"GunSelector", \h32>>,
     <<"GunSingleShot", \h33>>,
     <<"GunBurst", \h34>>,
     <<"GunAutomatic", \h35>>,
     <<"GunSafety", \h36>>,
     <<"GamePadFireJump", \h37>>,
     <<"GamePadTrigger", \h39>>
  >>

\* enum Keyboard (#[repr(u8)]), page.rs lines 709-886: the variants in
\* declaration order, each with its explicit discriminant.
KeyboardTable ==
  << <<"NoEventIndicated", \h00>>,
     <<"ErrorRollOver", \h01>>,
     <<"POSTFail", \h02>>,
     <<"ErrorUndefine", \h03>>,
     <<"A", \h04>>,
     <<"B", \h05>>,
     <<"C", \h06>>,
     <<"D", \h07>>,
     <<"E", \h08>>,
     <<"F", \h09>>,
     <<"G", \h0A>>,
     <<"H", \h0B>>,
     <<"I", \h0C>>,
     <<"J", \h0D>>,
     <<"K", \h0E>>,
     <<"L", \h0F>>,
     <<"M", \h10>>,
     <<"N", \h11>>,
     <<"O", \h12>>,
     <<"P", \h13>>,
     <<"Q", \h14>>,
     <<"R", \h15>>,
     <<"S", \h16>>,
     <<"T", \h17>>,
     <<"U", \h18>>,
     <<"V", \h19>>,
     <<"W", \h1A>>,
     <<"X", \h1B>>,
     <<"Y", \h1C>>,
     <<"Z", \h1D>>,
     <<"Keyboard1", \h1E>>,
     <<"Keyboard2", \h1F>>,
     <<"Keyboard3", \h20>>,
     <<"Keyboard4", \h21>>,
     <<"Keyboard5", \h22>>,
     <<"Keyboard6", \h23>>,
     <<"Keyboard7", \h24>>,
     <<"Keyboard8", \h25>>,
     <<"Keyboard9", \h26>>,
     <<"Keyboard0", \h27>>,
     <<"ReturnEnter", \h28>>,
     <<"Escape", \h29>>,
     <<"DeleteBackspace", \h2A>>,
     <<"Tab", \h2B>>,
     <<"Space", \h2C>>,
     <<"Minus", \h2D>>,
     <<"Equal", \h2E>>,
     <<"LeftBrace", \h2F>>,
     <<"RightBrace", \h30>>,
     <<"Backslash", \h31>>,
     <<"NonUSHash", \h32>>,
     <<"Semicolon", \h33>>,
     <<"Apostrophe", \h34>>,
     <<"Grave", \h35>>,
     <<"Comma", \h36>>,
     <<"Dot", \h37>>,
     <<"ForwardSlash", \h38>>,
     <<"CapsLock", \h39>>,
     <<"F1", \h3A>>,
     <<"F2", \h3B>>,
     <<"F3", \h3C>>,
     <<"F4", \h3D>>,
     <<"F5", \h3E>>,
     <<"F6", \h3F>>,
     <<"F7", \h40>>,
     <<"F8", \h41>>,
     <<"F9", \h42>>,
     <<"F10", \h43>>,
     <<"F11", \h44>>,
     <<"F12", \h45>>,
     <<"PrintScreen", \h46>>,
     <<"ScrollLock", \h47>>,
     <<"Pause", \h48>>,
     <<"Insert", \h49>>,
     <<"Home", \h4A>>,
     <<"PageUp", \h4B>>,
     <<"DeleteForward", \h4C>>,
     <<"End", \h4D>>,
     <<"PageDown", \h4E>>,
     <<"RightArrow", \h4F>>,
     <<"LeftArrow", \h50>>,
     <<"DownArrow", \h51>>,
     <<"UpArrow", \h52>>,
     <<"KeypadNumLockAndClear", \h53>>,
     <<"KeypadDivide", \h54>>,
     <<"KeypadMultiply", \h55>>,
     <<"KeypadSubtract", \h56>>,
     <<"KeypadAdd", \h57>>,
     <<"KeypadEnter", \h58>>,
     <<"Keypad1", \h59>>,
     <<"Keypad2", \h5A>>,
     <<"Keypad3", \h5B>>,
     <<"Keypad4", \h5C>>,
     <<"Keypad5", \h5D>>,
     <<"Keypad6", \h5E>>,
     <<"Keypad7", \h5F>>,
     <<"Keypad8", \h60>>,
     <<"Keypad9", \h61>>,
     <<"Keypad0", \h62>>,
     <<"KeypadDot", \h63>>,
     <<"NonUSBackslash", \h64>>,
     <<"Application", \h65>>,
     <<"Power", \h66>>,
     <<"KeypadEqual", \h67>>,
     <<"F13", \h68>>,
     <<"F14", \h69>>,
     <<"F15", \h6A>>,
     <<"F16", \h6B>>,
     <<"F17", \h6C>>,
     <<"F18", \h6D>>,
     <<"F19", \h6E>>,
     <<"F20", \h6F>>,
     <<"F21", \h70>>,
     <<"F22", \h71>>,
     <<"F23", \h72>>,
     <<"F24", \h73>>,
     <<"Execute", \h74>>,
     <<"Help", \h75>>,
     <<"Menu", \h76>>,
     <<"Select", \h77>>,
     <<"Stop", \h78>>,
     <<"Again", \h79>>,
     <<"Undo", \h7A>>,
     <<"Cut", \h7B>>,
     <<"Copy", \h7C>>,
     <<"Paste", \h7D>>,
     <<"Find", \h7E>>,
     <<"Mute", \h7F>>,
     <<"VolumeUp", \h80>>,
     <<"VolumeDown", \h81>>,
     <<"LockingCapsLock", \h82>>,
     <<"LockingNumLock", \h83>>,
     <<"LockingScrollLock", \h84>>,
     <<"KeypadComma", \h85>>,
     <<"KeypadEqualSign", \h86>>,
     <<"Kanji1", \h87>>,
     <<"Kanji2", \h88>>,
     <<"Kanji3", \h89>>,
     <<"Kanji4", \h8A>>,
     <<"Kanji5", \h8B>>,
     <<"Kanji6", \h8C>>,
     <<"Kanji7", \h8D>>,
     <<"Kanji8", \h8E>>,
     <<"Kanji9", \h8F>>,
     <<"LANG1", \h90>>,
     <<"LANG2", \h91>>,
     <<"LANG3", \h92>>,
     <<"LANG4", \h93>>,
     <<"LANG5", \h94>>,
     <<"LANG6", \h95>>,
     <<"LANG7", \h96>>,
     <<"LANG8", \h97>>,
     <<"LANG9", \h98>>,
     <<"AlternateErase", \h99>>,
     <<"SysReqAttention", \h9A>>,
     <<"Cancel", \h9B>>,
     <<"Clear", \h9C>>,
     <<"Prior", \h9D>>,
     <<"Return", \h9E>>,
     <<"Separator", \h9F>>,
     <<"Out", \hA0>>,
     <<"Oper", \hA1>>,
     <<"ClearAgain", \hA2>>,
     <<"CrSelProps", \hA3>>,
     <<"ExSel", \hA4>>,
     <<"LeftControl", \hE0>>,
     <<"LeftShift", \hE1>>,
     <<"LeftAlt", \hE2>>,
     <<"LeftGUI", \hE3>>,
     <<"RightControl", \hE4>>,
     <<"RightShift", \hE5>>,
     <<"RightAlt", \hE6>>,
     <<"RightGUI", \hE7>>
  >>

\* enum Simulation (#[repr(u8)]), page.rs lines 912-970: the variants in
\* declaration order, each with its explicit discriminant.
SimulationTable ==
  << <<"Undefined", \h00>>,
     <<"FlightSimulationDevice", \h01>>,
     <<"AutomobileSimulationDevice", \h02>>,
     <<"TankSimulationDevice", \h03>>,
     <<"SpaceshipSimulationDevice", \h04>>,
     <<"SubmarineSimulationDevice", \h05>>,
     <<"SailingSimulationDevice", \h06>>,
     <<"MotorcycleSimulationDevice", \h07>>,
     <<"SportsSimulationDevice", \h08>>,
     <<"AirplaneSimulationDevice", \h09>>,
     <<"HelicopterSimulationDevice", \h0A>>,
     <<"MagicCarpetSimulationDevice", \h0B>>,
     <<"Bicycle", \h0C>>,
     <<"FlightControlStick", \h20>>,
     <<"FlightStick", \h21>>,
     <<"CyclicControl", \h22>>,
     <<"CyclicTrim", \h23>>,
     <<"FlightYoke", \h24>>,
     <<"TrackControl", \h25>>,
     <<"DrivingControl", \h26>>,
     <<"Aileron", \hB0>>,
     <<"AileronTrim", \hB1>>,
     <<"AntiTorqueControl", \hB2>>,
     <<"AutoPilotEnable", \hB3>>,
     <<"ChaffRelease", \hB4>>,
     <<"CollectiveControl", \hB5>>,
     <<"DiveBrake", \hB6>>,
     <<"ElectronicCounterMeasures", \hB7>>,
     <<"Elevator", \hB8>>,
     <<"ElevatorTrim", \hB9>>,
     <<"Rudder", \hBA>>,
     <<"Throttle", \hBB>>,
     <<"FlightCommunication", \hBC>>,
     <<"FlareRelease", \hBD>>,
     <<"LandingGear", \hBE>>,
     <<"ToeBrake", \hBF>>,
     <<"Trigger", \hC0>>,
     <<"WeaponsArm", \hC1>>,
     <<"WeaponsSelect", \hC2>>,
     <<"WingFlaps", \hC3>>,
     <<"Accelerator", \hC4>>,
     <<"Brake", \hC5>>,
     <<"Clutch", \hC6>>,
     <<"Shifter", \hC7>>,
     <<"Steering", \hC8>>,
     <<"TurretDirection", \hC9>>,
     <<"BarrelElevation", \hCA>>,
     <<"DivePlane", \hCB>>,
     <<"Ballast", \hCC>>,
     <<"BicycleCrank", \hCD>>,
     <<"HandleBars", \hCE>>,
     <<"FrontBrake", \hCF>>,
     <<"RearBrake", \hD0>>
  >>

\* enum Telephony (#[repr(u8)]), page.rs lines 996-1070: the variants in
\* declaration order, each with its explicit discriminant.
TelephonyTable ==
  << <<"Unassigned", \h00>>,
     <<"Phone", \h01>>,
     <<"AnsweringMachine", \h02>>,
     <<"MessageControls", \h03>>,
     <<"Handset", \h04>>,
     <<"Headset", \h05>>,
     <<"TelephonyKeyPad", \h06>>,
     <<"ProgrammableButton", \h07>>,
     <<"HookSwitch", \h20>>,
     <<"Flash", \h21>>,
     <<"Feature", \h22>>,
     <<"Hold", \h23>>,
     <<"Redial", \h24>>,
     <<"Transfer", \h25>>,
     <<"Drop", \h26>>,
     <<"Park", \h27>>,
     <<"ForwardCalls", \h28>>,
     <<"AlternateFunction", \h29>>,
     <<"Line", \h2A>>,
     <<"SpeakerPhone", \h2B>>,
     <<"Conference", \h2C>>,
     <<"RingEnable", \h2D>>,
     <<"RingSelect", \h2E>>,
     <<"PhoneMute", \h2F>>,
     <<"CallerID", \h30>>,
     <<"Send", \h31>>,
     <<"SpeedDial", \h50>>,
     <<"StoreNumber", \h51>>,
     <<"RecallNumber", \h52>>,
     <<"PhoneDirectory", \h53>>,
     <<"VoiceMail", \h70>>,
     <<"ScreenCalls", \h71>>,
     <<"DoNotDisturb", \h72>>,
     <<"Message", \h73>>,
     <<"AnswerOnOff", \h74>>,
     <<"InsideDialTone", \h90>>,
     <<"OutsideDialTone", \h91>>,
     <<"InsideRingTone", \h92>>,
     <<"OutsideRingTone", \h93>>,
     <<"PriorityRingTone", \h94>>,
     <<"InsideRingback", \h95>>,
     <<"PriorityRingback", \h96>>,
     <<"LineBusyTone", \h97>>,
     <<"ReorderTone", \h98>>,
     <<"CallWaitingTone", \h99>>,
     <<"ConfirmationTone1", \h9A>>,
     <<"ConfirmationTone2", \h9B>>,
     <<"TonesOff", \h9C>>,
     <<"OutsideRingback", \h9D>>,
     <<"Ringer", \h9E>>,
     <<"PhoneKey0", \hB0>>,
     <<"PhoneKey1", \hB1>>,
     <<"PhoneKey2", \hB2>>,
     <<"PhoneKey3", \hB3>>,
     <<"PhoneKey4", \hB4>>,
     <<"PhoneKey5", \hB5>>,
     <<"PhoneKey6", \hB6>>,
     <<"PhoneKey7", \hB7>>,
     <<"PhoneKey8", \hB8>>,
     <<"PhoneKey9", \hB9>>,
     <<"PhoneKeyStar", \hBA>>,
     <<"PhoneKeyPound", \hBB>>,
     <<"PhoneKeyA", \hBC>>,
     <<"PhoneKeyB", \hBD>>,
     <<"PhoneKeyC", \hBE>>,
     <<"PhoneKeyD", \hBF>>
  >>
(***************************************************************************)
(* The page registry: pure operators.                                      *)
(***************************************************************************)

Pages ==
  {"Leds", "Consumer", "Desktop", "Game", "Keyboard", "Simulation", "Telephony"}

\* #[repr(u8)] on six pages, #[repr(u16)] on Consumer: the width in bits of
\* the page's usage code.
ReprBits(page) == IF page = "Consumer" THEN 16 ELSE 8

RECURSIVE Pow2(_)
Pow2(n) == IF n = 0 THEN 1 ELSE 2 * Pow2(n - 1)

\* Every value of the page's code type (u8 or u16).
CodeSpace(page) == 0 .. (Pow2(ReprBits(page)) - 1)

\* The Leds table with Play given the value Play has on the Consumer page.
LedsTablePlayB0 ==
  [i \in 1 .. Len(LedsTable) |->
     IF LedsTable[i][1] = "Play" THEN <<"Play", \hB0>> ELSE LedsTable[i]]

TableBorrowed(page) ==
  CASE page = "Leds" -> LedsTablePlayB0
    [] page = "Consumer" -> ConsumerTable
    [] page = "Desktop" -> DesktopTable
    [] page = "Game" -> GameTable
    [] page = "Keyboard" -> KeyboardTable
    [] page = "Simulation" -> SimulationTable
    [] page = "Telephony" -> TelephonyTable

\* The Game table with its gap closed (GamePadTrigger = 0x38).
GameTableNoGap ==
  [GameTable EXCEPT ![Len(GameTable)] = <<"GamePadTrigger", \h38>>]

TableNoGap(page) ==
  CASE page = "Leds" -> LedsTable
    [] page = "Consumer" -> ConsumerTable
    [] page = "Desktop" -> DesktopTable
    [] page = "Game" -> GameTableNoGap
    [] page = "Keyboard" -> KeyboardTable
    [] page = "Simulation" -> SimulationTable
    [] page = "Telephony" -> TelephonyTable

\* The Game table with one discriminant repeated (GamePadTrigger given the
\* value of GamePadFireJump).
GameTableDup ==
  [GameTable EXCEPT ![Len(GameTable)] = <<"GamePadTrigger", \h37>>]

TableDup(page) ==
  CASE page = "Leds" -> LedsTable
    [] page = "Consumer" -> ConsumerTable
    [] page = "Desktop" -> DesktopTable
    [] page = "Game" -> GameTableDup
    [] page = "Keyboard" -> KeyboardTable
    [] page = "Simulation" -> SimulationTable
    [] page = "Telephony" -> TelephonyTable

\* The Consumer table with one usage missing (no Mute = 0xE2).
ConsumerTableGap == SelectSeq(ConsumerTable, LAMBDA e : e[1] # "Mute")

TableGap(page) ==
  CASE page = "Leds" -> LedsTable
    [] page = "Consumer" -> ConsumerTableGap
    [] page = "Desktop" -> DesktopTable
    [] page = "Game" -> GameTable
    [] page = "Keyboard" -> KeyboardTable
    [] page = "Simulation" -> SimulationTable
    [] page = "Telephony" -> TelephonyTable

Table(page) ==
  CASE page = "Leds" -> LedsTable
    [] page = "Consumer" -> ConsumerTable
    [] page = "Desktop" -> DesktopTable
    [] page = "Game" -> GameTable
    [] page = "Keyboard" -> KeyboardTable
    [] page = "Simulation" -> SimulationTable
    [] page = "Telephony" -> TelephonyTable

\* The values of the enum: one per declared variant.
Variants(page) == 1 .. Len(Table(page))

Name(page, v) == Table(page)[v][1]

\* The explicit discriminant of a variant ("Play = 0xB0").
Discriminant(page, v) == Table(page)[v][2]

VariantNamed(page, name) ==
  CHOOSE v \in Variants(page) : Name(page, v) = name

\* The attribute put one variant too low on the Keyboard page.
NumEnumDefaultMoved(page) ==
  CASE page = "Leds" -> "Undefined"
    [] page = "Consumer" -> "Unassigned"
    [] page = "Desktop" -> "Undefined"
    [] page = "Game" -> "Undefined"
    [] page = "Keyboard" -> "ErrorRollOver"
    [] page = "Simulation" -> "Undefined"
    [] page = "Telephony" -> "Unassigned"

\* The variant that carries #[num_enum(default)].
NumEnumDefault(page) ==
  CASE page = "Leds" -> "Undefined"
    [] page = "Consumer" -> "Unassigned"
    [] page = "Desktop" -> "Undefined"
    [] page = "Game" -> "Undefined"
    [] page = "Keyboard" -> "NoEventIndicated"
    [] page = "Simulation" -> "Undefined"
    [] page = "Telephony" -> "Unassigned"

\* impl Default: a default() that names the first usage after the fallback.
default_first_named(page) == 2

\* impl Default for each page: fn default() -> Self.
default(page) ==
  VariantNamed(page,
    CASE page = "Leds" -> "Undefined"
      [] page = "Consumer" -> "Unassigned"
      [] page = "Desktop" -> "Undefined"
      [] page = "Game" -> "Undefined"
      [] page = "Keyboard" -> "NoEventIndicated"
      [] page = "Simulation" -> "Undefined"
      [] page = "Telephony" -> "Unassigned")

\* The match generated by derive(FromPrimitive): one arm per variant in
\* declaration order, "discriminant => variant"; Arms is the set of arms
\* whose pattern is the number.
Arms(page, number) ==
  {i \in Variants(page) : Discriminant(page, i) = number}

\* The arm taken: the first that matches, and the catch-all arm, which
\* yields the #[num_enum(default)] variant, when none does.
MatchArm(page, number) ==
  LET arms == Arms(page, number)
  IN  IF arms = {}
        THEN VariantNamed(page, NumEnumDefault(page))
        ELSE CHOOSE i \in arms : \A j \in arms : i <= j

\* A from_code with no catch-all: a code without an arm yields no variant
\* (0 is no position of the table).
from_code_partial(page, number) ==
  IF Arms(page, number) = {} THEN 0 ELSE MatchArm(page, number)

\* A from_code that matches on the low byte of the code only.
from_code_low_byte(page, number) == MatchArm(page, number % 256)

\* FromPrimitive::from_primitive / From<u8|u16>: code -> usage.
from_code(page, number) == MatchArm(page, number)

\* A to_code narrowed to one byte ("let x: u8 = (*self).into()" on the
\* 16-bit page).
to_code_u8(page, v) == Discriminant(page, v) % 256

\* IntoPrimitive / From<Page> for u8|u16: usage -> code ("self as u16").
to_code(page, v) == Discriminant(page, v)

\* A comparison with its operands exchanged.
cmp_reversed(page, a, b) ==
  IF Discriminant(page, a) > Discriminant(page, b) THEN "Less"
  ELSE IF Discriminant(page, a) = Discriminant(page, b) THEN "Equal"
  ELSE "Greater"

\* derive(Ord, PartialOrd) on a fieldless enum: the discriminants compared.
cmp(page, a, b) ==
  IF Discriminant(page, a) < Discriminant(page, b) THEN "Less"
  ELSE IF Discriminant(page, a) = Discriminant(page, b) THEN "Equal"
  ELSE "Greater"

\* PartialOrd::lt.
lt(page, a, b) == cmp(page, a, b) = "Less"

\* derive(Eq, PartialEq) on a fieldless enum: the discriminants compared.
eq(page, a, b) == Discriminant(page, a) = Discriminant(page, b)

\* Big-endian encoding of an unsigned integer of the given width.
RECURSIVE to_be_bytes(_, _)
to_be_bytes(x, bits) ==
  IF bits = 0 THEN <<>>
  ELSE to_be_bytes(x \div 256, bits - 8) \o <<x % 256>>

\* u8::to_le_bytes / u16::to_le_bytes: least significant byte first.
RECURSIVE to_le_bytes(_, _)
to_le_bytes(x, bits) ==
  IF bits = 0 THEN <<>>
  ELSE <<x % 256>> \o to_le_bytes(x \div 256, bits - 8)

\* hash32::Hasher::write as seen by this crate: the hasher consumes the
\* bytes in order.  The state of a hasher is the bytes written so far.
write(state, bytes) == state \o bytes

\* impl Hash for each page: fn hash<H: Hasher>(&self, state: &mut H).
hash(page, v, state) ==
  LET x == to_code(page, v)
  IN  write(state, to_le_bytes(x, ReprBits(page)))

(***************************************************************************)
(* A caller of the registry.  It works on one page and either decodes a    *)
(* wire code or holds a usage it named or defaulted; it then encodes,      *)
(* decodes again, hashes or compares.  Optional values are sequences of    *)
(* length 0 or 1.                                                          *)
(***************************************************************************)

\* Calls of hash on one hasher that the model follows.
MaxHashCalls == 2

\* Iterations of the example's loop that write a report.
MaxWrites == 2

None == <<>>
Some(x) == <<x>>

VARIABLES
  page,        \* the usage page the caller works on
  pc,          \* what the caller did last
  code,        \* the wire code handed to from_code, if any
  sym,         \* the usage the caller holds, if any
  out,         \* the result of to_code(sym), if computed
  back,        \* the result of from_code(out), if computed
  other,       \* the second usage of a comparison, if any
  ord,         \* the result of cmp(sym, other)
  same,        \* the result of sym == other, if computed
  hasher,      \* the state of the caller's hasher: the bytes written to it
  hcalls,      \* the calls of hash made on the hasher
  lpc,         \* the example: the position of main in its loop
  lows,        \* the example: is_low() of in0..in6 as read in this iteration
  keys,        \* the example: the local array keys
  report_code, \* the example: the local report_code, if computed
  wire,        \* the example: the last buffer handed to write_report
  polled,      \* the example: what usb_dev.poll returned in this iteration
  result,      \* the example: what the last write_report returned
  nwrites,     \* the example: the calls of write_report so far
  written,     \* the example: the calls of write_report in this iteration
  calls,       \* concurrent callers: the call each caller has in progress
  hashers      \* concurrent callers: the state of each caller's hasher

regvars == <<page, pc, code, sym, out, back, other, ord, same, hasher, hcalls>>
concvars == <<calls, hashers>>
loopvars ==
  <<lpc, lows, keys, report_code, wire, polled, result, nwrites, written>>
vars == <<page, pc, code, sym, out, back, other, ord, same, hasher, hcalls,
          lpc, lows, keys, report_code, wire, polled, result, nwrites,
          written, calls, hashers>>

RegInit ==
  /\ pc = "idle"
  /\ code = None
  /\ sym = None
  /\ out = None
  /\ back = None
  /\ other = None
  /\ ord = "none"
  /\ same = None
  /\ hasher = <<>>
  /\ hcalls = 0

\* from_code(c) for any c of the page's code type.
FromCode ==
  /\ pc = "idle"
  /\ \E c \in CodeSpace(page) :
       /\ code' = Some(c)
       /\ sym' = Some(from_code(page, c))
  /\ pc' = "decoded"
  /\ UNCHANGED <<page, out, back, other, ord, same, hasher, hcalls>>
  /\ UNCHANGED loopvars
  /\ UNCHANGED concvars

\* The caller names a variant (Consumer::Play).
Named ==
  /\ pc = "idle"
  /\ \E v \in Variants(page) : sym' = Some(v)
  /\ pc' = "held"
  /\ UNCHANGED <<page, code, out, back, other, ord, same, hasher, hcalls>>
  /\ UNCHANGED loopvars
  /\ UNCHANGED concvars

\* Default::default().
Default ==
  /\ pc = "idle"
  /\ sym' = Some(default(page))
  /\ pc' = "defaulted"
  /\ UNCHANGED <<page, code, out, back, other, ord, same, hasher, hcalls>>
  /\ UNCHANGED loopvars
  /\ UNCHANGED concvars

\* to_code of the usage held.
ToCode ==
  /\ pc \in {"decoded", "held", "defaulted"}
  /\ out' = Some(to_code(page, sym[1]))
  /\ pc' = "encoded"
  /\ UNCHANGED <<page, code, sym, back, other, ord, same, hasher, hcalls>>
  /\ UNCHANGED loopvars
  /\ UNCHANGED concvars

\* from_code of the code to_code returned.
Redecode ==
  /\ pc = "encoded"
  /\ back' = Some(from_code(page, out[1]))
  /\ pc' = "redecoded"
  /\ UNCHANGED <<page, code, sym, out, other, ord, same, hasher, hcalls>>
  /\ UNCHANGED loopvars
  /\ UNCHANGED concvars

\* sym.hash(&mut hasher).
HashSym ==
  /\ pc \in {"held", "defaulted", "hashed"}
  /\ hcalls < MaxHashCalls
  /\ hasher' = hash(page, sym[1], hasher)
  /\ hcalls' = hcalls + 1
  /\ pc' = "hashed"
  /\ UNCHANGED <<page, code, sym, out, back, other, ord, same>>
  /\ UNCHANGED loopvars
  /\ UNCHANGED concvars

\* sym.cmp(&v2) and sym == v2 for any usage v2 of the page.
Compare ==
  /\ pc \in {"held", "defaulted"}
  /\ \E v2 \in Variants(page) :
       /\ other' = Some(v2)
       /\ ord' = cmp(page, sym[1], v2)
       /\ same' = Some(eq(page, sym[1], v2))
  /\ pc' = "compared"
  /\ UNCHANGED <<page, code, sym, out, back, hasher, hcalls>>
  /\ UNCHANGED loopvars
  /\ UNCHANGED concvars

(***************************************************************************)
(* The example: the loop of main in consumer_fixed.rs.                     *)
(***************************************************************************)

\* The input lines in0 .. in6.
Lines == 0 .. 6

\* The literals with in4 given the value of in3.
KeyBitRepeated(i) ==
  CASE i = 0 -> 1
    [] i = 1 -> 2
    [] i = 2 -> 4
    [] i = 3 -> 8
    [] i = 4 -> 8
    [] i = 5 -> 32
    [] i = 6 -> 64

\* The literal an active line contributes to keys:
\* 0x1 next, 0x2 previous, 0x4 stop, 0x8 play pause, 0x10 mute, 0x20 vol+,
\* 0x40 vol-.
KeyBit(i) ==
  CASE i = 0 -> 1
    [] i = 1 -> 2
    [] i = 2 -> 4
    [] i = 3 -> 8
    [] i = 4 -> 16
    [] i = 5 -> 32
    [] i = 6 -> 64

\* a | b on unsigned integers.
RECURSIVE BitOr(_, _)
BitOr(a, b) ==
  IF a = 0 THEN b
  ELSE IF b = 0 THEN a
  ELSE (IF a % 2 = 1 \/ b % 2 = 1 THEN 1 ELSE 0)
         + 2 * BitOr(a \div 2, b \div 2)

\* Iterator::reduce(|a, b| a | b): the first element is the accumulator, the
\* others are folded into it in order; an empty iterator yields None.
RECURSIVE fold(_, _, _)
fold(s, i, acc) ==
  IF i > Len(s) THEN acc ELSE fold(s, i + 1, BitOr(acc, s[i]))

reduce(s) == IF s = <<>> THEN None ELSE Some(fold(s, 2, s[1]))

\* Option::unwrap_or.
unwrap_or(o, d) == IF o = None THEN d ELSE o[1]

\* The array keys for the levels read: element i+1 belongs to line i.
KeysOf(low) == [k \in 1 .. 7 |-> IF low[k - 1] THEN KeyBit(k - 1) ELSE 0]

\* The if on the poll taken whatever the poll returned.
PollBranchAlways(r) == "read"

\* if usb_dev.poll(..) { .. }: the body runs when the poll returned true,
\* otherwise the iteration ends.
PollBranch(r) == IF r THEN "read" ELSE "top"

\* The match without its Err(UsbError::WouldBlock) arm.
MatchResultNoWouldBlockArm(r) == IF r = "Ok" THEN "top" ELSE "panicked"

\* The match on what write_report returned: Err(WouldBlock) and Ok(_) fall
\* through to the end of the iteration, any other Err(e) panics.
MatchResult(r) == IF r = "OtherError" THEN "panicked" ELSE "top"

LoopInit ==
  /\ lpc = "top"
  /\ lows = None
  /\ keys = None
  /\ report_code = None
  /\ wire = None
  /\ polled = None
  /\ result = "none"
  /\ nwrites = 0
  /\ written = 0

\* Top of an iteration: the boot button is read; when it is low the ROM
\* routine reset_to_usb_boot takes over and main runs no further.
CheckButton ==
  /\ lpc = "top"
  /\ \E pressed \in BOOLEAN :
       lpc' = IF pressed THEN "boot" ELSE "poll"
  /\ lows' = None
  /\ keys' = None
  /\ report_code' = None
  /\ polled' = None
  /\ written' = 0
  /\ UNCHANGED <<wire, result, nwrites>>
  /\ UNCHANGED regvars
  /\ UNCHANGED concvars

\* usb_dev.poll(..): true or false as the USB stack decides.
Poll ==
  /\ lpc = "poll"
  /\ \E r \in BOOLEAN :
       /\ r => nwrites < MaxWrites
       /\ polled' = Some(r)
       /\ lpc' = PollBranch(r)
  /\ UNCHANGED <<lows, keys, report_code, wire, result, nwrites, written>>
  /\ UNCHANGED regvars
  /\ UNCHANGED concvars

\* The seven lines are read into keys and keys is reduced to report_code.
ReadKeys ==
  /\ lpc = "read"
  /\ \E low \in [Lines -> BOOLEAN] :
       /\ lows' = Some(low)
       /\ keys' = Some(KeysOf(low))
       /\ report_code' = Some(unwrap_or(reduce(KeysOf(low)), 0))
  /\ lpc' = "write"
  /\ UNCHANGED <<wire, polled, result, nwrites, written>>
  /\ UNCHANGED regvars
  /\ UNCHANGED concvars

\* write_report(&[report_code]) and the match on what it returns.
WriteReport ==
  /\ lpc = "write"
  /\ wire' = Some(<<report_code[1]>>)
  /\ nwrites' = nwrites + 1
  /\ written' = written + 1
  /\ \E r \in {"Ok", "WouldBlock", "OtherError"} :
       /\ result' = r
       /\ lpc' = MatchResult(r)
  /\ UNCHANGED <<lows, keys, report_code, polled>>
  /\ UNCHANGED regvars
  /\ UNCHANGED concvars

(***************************************************************************)
(* Concurrent callers.  The registry holds no static and no shared data:   *)
(* a call reads the constant tables and its arguments, and hash writes to  *)
(* the hasher its caller passed as "state: &mut H".  Each caller makes one *)
(* call; a call of hash takes two steps, the conversion of self to its     *)
(* code and the write to the hasher, and the steps of different callers    *)
(* interleave in any order.                                                *)
(***************************************************************************)

\* Callers that run concurrently.
NumCallers == 2

Callers == 1 .. NumCallers

\* The pages, codes and usages the concurrent callers draw their arguments
\* from.
ConcPages == {"Consumer", "Leds"}

ConcCodes(p) == {\h00, \h36, \hB0, \h29D} \cap CodeSpace(p)

ConcVariants(p) ==
  {VariantNamed(p, n) : n \in {NumEnumDefault(p), "Play", "Mute"}}

\* The calls a caller may make: operation, page and arguments.
CallSet ==
  UNION { [op : {"from_code"}, pg : {p}, a : {Some(c) : c \in ConcCodes(p)},
           b : {None}]
          \cup [op : {"to_code", "hash"}, pg : {p},
                a : {Some(v) : v \in ConcVariants(p)}, b : {None}]
          \cup [op : {"default"}, pg : {p}, a : {None}, b : {None}]
          \cup [op : {"cmp"}, pg : {p}, a : {Some(v) : v \in ConcVariants(p)},
                b : {Some(v) : v \in ConcVariants(p)}]
        : p \in ConcPages }

NoCall == [op |-> "none", pg |-> "none", a |-> None, b |-> None]

\* One hasher written by every caller.
HasherShared(c) == 1

\* "state: &mut H": the hasher a call of hash writes is the one its caller
\* passed, which the caller borrows exclusively.
HasherOf(c) == c

ConcInit ==
  /\ calls = [c \in Callers |->
                [st |-> "idle", call |-> NoCall, x |-> None, res |-> None]]
  /\ hashers = [c \in Callers |-> <<>>]

\* Caller c starts a call.
Call(c) ==
  /\ calls[c].st = "idle"
  /\ \E k \in CallSet :
       calls' = [calls EXCEPT ![c].st = "running", ![c].call = k]
  /\ UNCHANGED hashers
  /\ UNCHANGED <<regvars, loopvars>>

\* A call of from_code, to_code, default or cmp returns.
Return(c) ==
  /\ calls[c].st = "running"
  /\ calls[c].call.op # "hash"
  /\ LET k == calls[c].call
         r == CASE k.op = "from_code" -> from_code(k.pg, k.a[1])
                [] k.op = "to_code" -> to_code(k.pg, k.a[1])
                [] k.op = "default" -> default(k.pg)
                [] k.op = "cmp" -> cmp(k.pg, k.a[1], k.b[1])
     IN  calls' = [calls EXCEPT ![c].st = "returned", ![c].res = Some(r)]
  /\ UNCHANGED hashers
  /\ UNCHANGED <<regvars, loopvars>>

\* hash: let x = (*self).into();
HashLoad(c) ==
  /\ calls[c].st = "running"
  /\ calls[c].call.op = "hash"
  /\ LET k == calls[c].call
     IN  calls' = [calls EXCEPT ![c].st = "loaded",
                                ![c].x = Some(to_code(k.pg, k.a[1]))]
  /\ UNCHANGED hashers
  /\ UNCHANGED <<regvars, loopvars>>

\* hash: state.write(&x.to_le_bytes()); the call returns, and the caller
\* sees what its hasher has consumed.
HashWrite(c) ==
  /\ calls[c].st = "loaded"
  /\ LET k == calls[c].call
         h == HasherOf(c)
         after == write(hashers[h], to_le_bytes(calls[c].x[1], ReprBits(k.pg)))
     IN  /\ hashers' = [hashers EXCEPT ![h] = after]
         /\ calls' = [calls EXCEPT ![c].st = "returned", ![c].res = Some(after)]
  /\ UNCHANGED <<regvars, loopvars>>

(***************************************************************************)
(* Specifications.                                                         *)
(***************************************************************************)

Init ==
  /\ page \in Pages
  /\ RegInit
  /\ LoopInit
  /\ ConcInit

Next ==
  \/ FromCode
  \/ Named
  \/ Default
  \/ ToCode
  \/ Redecode
  \/ HashSym
  \/ Compare

\* The registry and its caller.
Spec == Init /\ [][Next]_vars

ExampleInit ==
  /\ page = "Consumer"
  /\ RegInit
  /\ LoopInit
  /\ ConcInit

ExampleNext ==
  \/ CheckButton
  \/ Poll
  \/ ReadKeys
  \/ WriteReport

\* The example's loop.
ExampleSpec == ExampleInit /\ [][ExampleNext]_vars

ConcNext ==
  \E c \in Callers :
    \/ Call(c)
    \/ Return(c)
    \/ HashLoad(c)
    \/ HashWrite(c)

\* Concurrent callers of the registry.
ConcSpec == ExampleInit /\ [][ConcNext]_vars

(***************************************************************************)
(* Properties.                                                             *)
(***************************************************************************)

\* The fallback variant of each page, by name.
FallbackName(p) ==
  CASE p \in {"Leds", "Desktop", "Game", "Simulation"} -> "Undefined"
    [] p \in {"Consumer", "Telephony"} -> "Unassigned"
    [] p = "Keyboard" -> "NoEventIndicated"

IsFallback(p, v) == Name(p, v) = FallbackName(p)

\* The named (non-fallback) variants of a page.
NamedVariants(p) == {v \in Variants(p) : ~IsFallback(p, v)}

\* The code is the assigned value of a named variant.
Assigned(p, c) == \E v \in NamedVariants(p) : Discriminant(p, v) = c

\* C1: from_code is total on the page's code space: for every code it
\* returns a variant of the page, the named variant whose assigned value is
\* the code when there is one, the page's fallback variant otherwise.
C1_Totality ==
  pc = "decoded" =>
    /\ code # None
    /\ code[1] \in CodeSpace(page)
    /\ sym # None
    /\ sym[1] \in Variants(page)
    /\ IF Assigned(page, code[1])
         THEN /\ ~IsFallback(page, sym[1])
              /\ Discriminant(page, sym[1]) = code[1]
         ELSE IsFallback(page, sym[1])

\* from_code has decoded the highest assigned Consumer code and an
\* unassigned Leds code.
C1_Witness ==
  /\ pc = "decoded"
  /\ \/ /\ page = "Consumer"
        /\ code = Some(\h29C)
        /\ Name(page, sym[1]) = "ACDistributeVertically"
     \/ /\ page = "Leds"
        /\ code = Some(\h4C)
        /\ Name(page, sym[1]) = "Undefined"

\* C2: for every named (non-fallback) variant v of a page,
\* from_code(to_code(v)) is v.
C2_RoundTrip ==
  (pc = "redecoded" /\ ~IsFallback(page, sym[1])) =>
    /\ out = Some(Discriminant(page, sym[1]))
    /\ back = sym

\* A named variant of the 16-bit page with a code above 0xFF has made the
\* round trip.
C2_Witness ==
  /\ pc = "redecoded"
  /\ page = "Consumer"
  /\ code = None
  /\ Name(page, sym[1]) = "ALEncryption"
  /\ out = Some(\h1B0)
  /\ back = sym

\* C3: for every code of the page's code space that is not the assigned
\* value of a named variant, from_code(c) is default().
C3_FallbackStability ==
  (pc = "decoded" /\ ~Assigned(page, code[1])) =>
    sym = Some(default(page))

\* An unassigned code inside the Keyboard table's reserved range has been
\* decoded to the default.
C3_Witness ==
  /\ pc = "decoded"
  /\ page = "Keyboard"
  /\ code = Some(\hA5)
  /\ sym = Some(default(page))

\* C4: within a page to_code is injective on named variants, and no named
\* variant has the fallback's code: two different variants of which at most
\* one is the fallback never have the same code.
C4_Injective ==
  (/\ pc = "compared"
   /\ sym # other
   /\ ~(IsFallback(page, sym[1]) /\ IsFallback(page, other[1]))) =>
    to_code(page, sym[1]) # to_code(page, other[1])

\* Two different named variants, and a named variant with the fallback, have
\* been compared.
C4_Witness ==
  /\ pc = "compared"
  /\ page = "Simulation"
  /\ Name(page, sym[1]) = "DrivingControl"
  /\ Name(page, other[1]) \in {"Aileron", "Undefined"}
  /\ to_code(page, sym[1]) # to_code(page, other[1])

\* C5: for all variants v1, v2 of a page, the fallback included, v1 < v2
\* holds iff to_code(v1) < to_code(v2); in particular Consumer Play (0xB0)
\* is less than Consumer Volume (0xE0).
C5_Ordering ==
  pc = "compared" =>
    /\ (ord = "Less") <=> (to_code(page, sym[1]) < to_code(page, other[1]))
    /\ (ord = "Equal") <=> (to_code(page, sym[1]) = to_code(page, other[1]))
    /\ (/\ page = "Consumer"
        /\ Name(page, sym[1]) = "Play"
        /\ Name(page, other[1]) = "Volume") =>
         /\ to_code(page, sym[1]) = \hB0
         /\ to_code(page, other[1]) = \hE0
         /\ ord = "Less"

\* Consumer Play has been compared with Consumer Volume, and a named Game
\* variant with the fallback.
C5_Witness ==
  /\ pc = "compared"
  /\ \/ /\ page = "Consumer"
        /\ Name(page, sym[1]) = "Play"
        /\ Name(page, other[1]) = "Volume"
        /\ ord = "Less"
     \/ /\ page = "Game"
        /\ Name(page, sym[1]) = "GunBolt"
        /\ Name(page, other[1]) = "Undefined"
        /\ ord = "Greater"

\* C6: for all variants v1, v2 of a page, v1 == v2 iff hash(v1) = hash(v2)
\* and to_code(v1) = to_code(v2), the two hashes taken from the same hasher
\* state; variants with equal codes hash identically.
C6_HashEq ==
  pc = "compared" =>
    LET h1 == hash(page, sym[1], hasher)
        h2 == hash(page, other[1], hasher)
        c1 == to_code(page, sym[1])
        c2 == to_code(page, other[1])
    IN  /\ same # None
        /\ same[1] <=> (h1 = h2 /\ c1 = c2)
        /\ same[1] <=> (sym = other)
        /\ (c1 = c2) => (h1 = h2)

\* A Consumer variant has been compared with itself, and with the variant
\* whose code has the same low byte.
C6_Witness ==
  /\ pc = "compared"
  /\ page = "Consumer"
  /\ Name(page, sym[1]) = "Play"
  /\ \/ other = sym /\ same = Some(TRUE)
     \/ Name(page, other[1]) = "ALEncryption" /\ same = Some(FALSE)

\* The little-endian encoding of a variant's code as the specification
\* states it: one byte on the 8-bit pages, low byte then high byte on
\* Consumer.
LittleEndian(p, c) ==
  IF p = "Consumer" THEN <<c % 256, c \div 256>> ELSE <<c>>

RECURSIVE Repeated(_, _)
Repeated(bytes, n) ==
  IF n = 0 THEN <<>> ELSE Repeated(bytes, n - 1) \o bytes

\* C7: hash(v) writes to the hasher exactly the little-endian bytes of
\* to_code(v) and nothing else: after n calls on a fresh hasher the hasher
\* has consumed that encoding n times over.
C7_HashBytes ==
  pc = "hashed" =>
    hasher = Repeated(LittleEndian(page, Discriminant(page, sym[1])), hcalls)

\* A Consumer variant with two different bytes and an 8-bit variant have
\* been hashed.
C7_Witness ==
  /\ pc = "hashed"
  /\ hcalls = 1
  /\ \/ /\ page = "Consumer"
        /\ Name(page, sym[1]) = "ACUndo"
        /\ hasher = <<\h1A, \h02>>
     \/ /\ page = "Telephony"
        /\ Name(page, sym[1]) = "PhoneKeyD"
        /\ hasher = <<\hBF>>

\* C8: each page has exactly one fallback variant; default() returns it,
\* from_code returns it for every unassigned code, and its code is 0.
C8_Fallback ==
  /\ pc = "defaulted" =>
       /\ Cardinality({v \in Variants(page) : IsFallback(page, v)}) = 1
       /\ sym # None
       /\ IsFallback(page, sym[1])
       /\ to_code(page, sym[1]) = 0
  /\ (pc = "decoded" /\ ~Assigned(page, code[1])) =>
       /\ IsFallback(page, sym[1])
       /\ sym[1] = default(page)
  /\ (pc \in {"encoded", "redecoded"} /\ IsFallback(page, sym[1])) =>
       out = Some(0)

\* default() has returned the fallback of the Keyboard page and of the
\* Telephony page.
C8_Witness ==
  /\ pc = "defaulted"
  /\ \/ page = "Keyboard" /\ Name(page, sym[1]) = "NoEventIndicated"
     \/ page = "Telephony" /\ Name(page, sym[1]) = "Unassigned"
  /\ to_code(page, sym[1]) = 0

\* C9: on the Consumer page from_code(0x00), from_code(0x9F), from_code(0x29D)
\* and from_code(0xFFFF) are Unassigned, as is every code from 0x29D to
\* 0xFFFF; from_code(0xB0) is Play and to_code(Play) is 0xB0; from_code(0xE2)
\* is Mute and to_code(Mute) is 0xE2.
C9_ConsumerExamples ==
  page = "Consumer" =>
    /\ pc = "decoded" =>
         /\ code = Some(\h00) => Name(page, sym[1]) = "Unassigned"
         /\ code = Some(\hB0) => Name(page, sym[1]) = "Play"
         /\ code = Some(\hE2) => Name(page, sym[1]) = "Mute"
         /\ code = Some(\h9F) => Name(page, sym[1]) = "Unassigned"
         /\ code = Some(\h29D) => Name(page, sym[1]) = "Unassigned"
         /\ code = Some(\hFFFF) => Name(page, sym[1]) = "Unassigned"
         /\ (code[1] >= \h29D /\ code[1] <= \hFFFF) =>
              Name(page, sym[1]) = "Unassigned"
    /\ pc = "encoded" =>
         /\ Name(page, sym[1]) = "Play" => out = Some(\hB0)
         /\ Name(page, sym[1]) = "Mute" => out = Some(\hE2)

\* The top of the Consumer code space has been decoded.
C9_Witness ==
  /\ page = "Consumer"
  /\ pc = "decoded"
  /\ code = Some(\hFFFF)
  /\ Name(page, sym[1]) = "Unassigned"

\* Bit i of the byte n.
TestBit(n, i) == (n \div Pow2(i)) % 2 = 1

\* C10: the report byte handed to the transport is the bitwise OR of the bit
\* values (0x01 << i for line i) of exactly the lines read low: bit i is set
\* iff line i is active and bit 7 never is, so the byte is 0x00 with no line
\* active, 0x14 with only stop (in2) and mute (in4) active, and never above
\* 0x7F.
C10_ReportByte ==
  (lpc \in {"top", "panicked"} /\ lows # None) =>
    /\ wire # None
    /\ Len(wire[1]) = 1
    /\ LET byte == wire[1][1]
           low == lows[1]
       IN  /\ \A i \in 0 .. 7 : TestBit(byte, i) <=> (i \in Lines /\ low[i])
           /\ byte >= 0
           /\ byte <= \h7F
           /\ (\A i \in Lines : ~low[i]) => byte = \h00
           /\ (\A i \in Lines : low[i] <=> i \in {2, 4}) => byte = \h14

\* A report has been written with only the stop and mute lines active.
C10_Witness ==
  /\ lpc = "top"
  /\ lows # None
  /\ \A i \in Lines : lows[1][i] <=> i \in {2, 4}
  /\ wire = Some(<<\h14>>)
  /\ nwrites > 0

\* The names the Leds and the Consumer page share, with the code of each on
\* the Leds page and on the Consumer page.
SharedNames ==
  { <<"Play", \h36, \hB0>>, <<"Pause", \h37, \hB1>>, <<"Stop", \h33, \hB7>>,
    <<"FastForward", \h35, \hB3>>, <<"Rewind", \h34, \hB4>>,
    <<"Record", \h38, \hB2>> }

\* C14: pages are independent namespaces: Play, Pause, Stop, FastForward,
\* Rewind and Record have the codes 0x36, 0x37, 0x33, 0x35, 0x34, 0x38 on the
\* Leds page and 0xB0, 0xB1, 0xB7, 0xB3, 0xB4, 0xB2 on the Consumer page, and
\* from_code of one page's code on the other page is not the variant of the
\* same name: Consumer from_code(0x36) is FunctionButtons and Leds
\* from_code(0xB0) is Undefined.
C14_Namespaces ==
  /\ \A t \in SharedNames :
       /\ (page = "Leds" /\ pc = "encoded" /\ Name(page, sym[1]) = t[1]) =>
            out = Some(t[2])
       /\ (page = "Consumer" /\ pc = "encoded" /\ Name(page, sym[1]) = t[1]) =>
            out = Some(t[3])
       /\ (page = "Leds" /\ pc = "decoded" /\ code = Some(t[3])) =>
            Name(page, sym[1]) # t[1]
       /\ (page = "Consumer" /\ pc = "decoded" /\ code = Some(t[2])) =>
            Name(page, sym[1]) # t[1]
  /\ (page = "Consumer" /\ pc = "decoded" /\ code = Some(\h36)) =>
       Name(page, sym[1]) = "FunctionButtons"
  /\ (page = "Leds" /\ pc = "decoded" /\ code = Some(\hB0)) =>
       Name(page, sym[1]) = "Undefined"

\* The code of Consumer Play has been decoded on the Leds page.
C14_Witness ==
  /\ page = "Leds"
  /\ pc = "decoded"
  /\ code = Some(\hB0)
  /\ Name(page, sym[1]) = "Undefined"

\* C15: for every code c of a page, to_code(from_code(c)) is c when c is 0 or
\* the assigned value of a named variant and 0 otherwise, and
\* from_code(to_code(from_code(c))) is from_code(c).
C15_Reclassify ==
  (code # None /\ pc \in {"encoded", "redecoded"}) =>
    /\ out = Some(IF code[1] = 0 \/ Assigned(page, code[1])
                    THEN code[1]
                    ELSE 0)
    /\ pc = "redecoded" => back = sym

\* An unassigned code and an assigned two-byte code have been decoded,
\* encoded and decoded again.
C15_Witness ==
  /\ pc = "redecoded"
  /\ page = "Consumer"
  /\ \/ code = Some(\h1BB) /\ out = Some(0)
     \/ code = Some(\h1BC) /\ out = Some(\h1BC)
  /\ back = sym

\* C16: codes in gaps inside the tables resolve to the fallback: Game 0x38;
\* Consumer 0x20A..0x219, 0x1BB and 0x23..0x2F; Simulation 0x27..0xAF.
C16_Gaps ==
  pc = "decoded" =>
    /\ (page = "Game" /\ code = Some(\h38)) =>
         Name(page, sym[1]) = "Undefined"
    /\ (/\ page = "Consumer"
        /\ \/ code[1] \in \h20A .. \h219
           \/ code[1] = \h1BB
           \/ code[1] \in \h23 .. \h2F) =>
         Name(page, sym[1]) = "Unassigned"
    /\ (page = "Simulation" /\ code[1] \in \h27 .. \hAF) =>
         Name(page, sym[1]) = "Undefined"

\* The code between GamePadFireJump and GamePadTrigger has been decoded.
C16_Witness ==
  /\ pc = "decoded"
  /\ page = "Game"
  /\ code = Some(\h38)
  /\ Name(page, sym[1]) = "Undefined"

\* C12: the outcome of write_report is handled by kind: after Ok and after
\* Err(WouldBlock) the loop goes on to its next iteration, the report is not
\* written again and the loop changes nothing it holds; after any other
\* error main panics, and once it has panicked nothing more happens: no
\* poll, no report.
C12_Outcome ==
  [][/\ lpc # "panicked"
     /\ lpc = "write" =>
          /\ result' \in {"Ok", "WouldBlock", "OtherError"}
          /\ nwrites' = nwrites + 1
          /\ result' \in {"Ok", "WouldBlock"} =>
               /\ lpc' = "top"
               /\ UNCHANGED <<lows, keys, report_code, polled>>
          /\ result' = "OtherError" => lpc' = "panicked"
     /\ lpc = "top" =>
          /\ lpc' \in {"poll", "boot"}
          /\ UNCHANGED <<wire, result, nwrites>>]_vars

\* After a write that returned Err(WouldBlock) the next iteration has begun.
C12_Witness ==
  /\ lpc = "poll"
  /\ result = "WouldBlock"
  /\ nwrites = 1

\* The byte is the OR of the bit values of the lines read low.
IsReportOf(byte, low) ==
  \A i \in 0 .. 7 : TestBit(byte, i) <=> (i \in Lines /\ low[i])

\* C13: a report is written in an iteration iff the poll of that iteration
\* returned true: such an iteration writes exactly one report, computed from
\* the lines as read after the poll in that iteration; an iteration whose
\* poll returned false reads no line and writes nothing.
C13_WriteIffPolled ==
  /\ written \in {0, 1}
  /\ written = 1 =>
       /\ polled = Some(TRUE)
       /\ lows # None
       /\ wire # None
       /\ Len(wire[1]) = 1
       /\ IsReportOf(wire[1][1], lows[1])
  /\ (polled = Some(TRUE) /\ lpc \in {"top", "panicked"}) => written = 1
  /\ polled = Some(TRUE) => lpc \in {"read", "write", "top", "panicked"}
  /\ polled = Some(FALSE) => (lows = None /\ written = 0 /\ lpc = "top")
  /\ polled = None => (lows = None /\ written = 0)
  /\ lpc = "read" => (lows = None /\ written = 0)
  /\ lpc = "write" => (lows # None /\ written = 0)

\* A second iteration whose poll returned true has written its report, and
\* an iteration whose poll returned false has ended after a report was
\* written earlier.
C13_Witness ==
  /\ lpc = "top"
  /\ nwrites = 2
  /\ wire = Some(<<\h41>>)
  /\ \/ polled = Some(TRUE) /\ written = 1
     \/ polled = Some(FALSE) /\ written = 0

\* What a call returns when it runs alone, hash on a fresh hasher.
Alone(k) ==
  CASE k.op = "from_code" -> from_code(k.pg, k.a[1])
    [] k.op = "to_code" -> to_code(k.pg, k.a[1])
    [] k.op = "default" -> default(k.pg)
    [] k.op = "cmp" -> cmp(k.pg, k.a[1], k.b[1])
    [] k.op = "hash" -> hash(k.pg, k.a[1], <<>>)

\* Caller c has hashed.
HasHashed(c) == calls[c].st = "returned" /\ calls[c].call.op = "hash"

\* C11: conversions are pure and stateless: with any number of callers
\* running from_code, to_code, default, cmp and hash concurrently, in any
\* interleaving, every call returns what it returns when run alone on the
\* same argument, and no call changes state another call observes: a step
\* of one caller leaves every other caller's call and hasher as they were,
\* and a hasher holds only what its own caller's hash wrote.
C11_Pure ==
  /\ [](\A c \in Callers :
          /\ calls[c].st = "returned" =>
               calls[c].res = Some(Alone(calls[c].call))
          /\ hashers[c] = IF HasHashed(c) THEN Alone(calls[c].call) ELSE <<>>)
  /\ [][\E c \in Callers :
          \A d \in Callers \ {c} :
            calls'[d] = calls[d] /\ hashers'[d] = hashers[d]]_vars

\* Two callers have hashed different Consumer usages concurrently, one has
\* two-byte code, and each sees only its own bytes.
C11_Witness ==
  /\ HasHashed(1)
  /\ HasHashed(2)
  /\ calls[1].call.pg = "Consumer"
  /\ Name("Consumer", calls[1].call.a[1]) = "Play"
  /\ calls[2].call.pg = "Leds"
  /\ Name("Leds", calls[2].call.a[1]) = "Mute"
  /\ calls[1].res = Some(<<\hB0, \h00>>)
  /\ calls[2].res = Some(<<\h09>>)

====
